---- MODULE Spec2Model ----
(***************************************************************************)
(* Application (Vulkan "drawing a triangle"): the initialization chain     *)
(* run() -> initWindow, initVulkan, mainLoop, cleanup of Application.cpp   *)
(* (latest snapshot, lines 214-959) and the selection functions it uses.   *)
(*                                                                         *)
(* Handles are integers, VK_NULL_HANDLE is 0.  A physical-device handle is *)
(* the position of the device in the enumeration (1-based).  Queue family  *)
(* indices are 0-based, as in the code.  The platform (Vulkan/GLFW) is the *)
(* environment: its answers are drawn from small sets.                     *)
(***************************************************************************)
EXTENDS Integers, Sequences, FiniteSets, TLC

VARIABLES
    pc,                   \* position of run()
    err,                  \* the exception that left run(), "none" if none
    app,                  \* the members of Application
    frame,                \* locals: the shader modules of createGraphicsPipeline, loop index i
    windowShouldClose,    \* platform: the close flag of the window
    physicalDevicesList,  \* platform: the devices vkEnumeratePhysicalDevices reports
    surfaceCapabilities,  \* platform: the capabilities createSwapChain was given
    queueCreateInfos,     \* platform: the request vkCreateDevice received
    swapChainCreateInfo,  \* platform: the request vkCreateSwapchainKHR received
    created,              \* platform: object handles in order of creation
    destroyed,            \* platform: object handles in order of destruction
    steps,                \* the steps of initVulkan entered, in order
    call,                 \* function-level specification: the call made
    ret                   \* function-level specification: its result

platformVars == <<windowShouldClose, physicalDevicesList, surfaceCapabilities,
                  queueCreateInfos, swapChainCreateInfo, created, destroyed>>

vars == <<pc, err, app, frame, platformVars, steps, call, ret>>

----------------------------------------------------------------------------
(* Program constants *)

VK_NULL_HANDLE == 0

\* std::optional<uint32_t> without a value
NoValue == -1

WIDTH == 800

HEIGHT == 600

\* std::numeric_limits<uint32_t>::max(); the model checker's integers are
\* 32-bit signed, so the sentinel is its largest integer: only equality with
\* the sentinel and order against real extents are ever used.
UINT32_MAX == 2147483647

deviceExtensions == <<"VK_KHR_swapchain">>

vulkanValidationLayers == <<"VK_LAYER_KHRONOS_validation">>

PreferredSurfaceFormat == [format |-> "B8G8R8A8_SRGB", colorSpace |-> "SRGB_NONLINEAR"]

----------------------------------------------------------------------------
(* Bounds of the model *)

\* longest enumerated device list of a run
MaxDevices == 2

\* longest queue-family list given to findQueueFamilies on its own
MaxFamilies == 3

\* longest surface-format list given to chooseSwapSurfaceFormat on its own
MaxFormats == 3

\* most swapchain images the platform hands out
MaxSwapChainImages == 3

\* longest list of presentation modes handed to chooseSwapPresentationMode
MaxModes == 3

\* longest list of instance layers, and of instance extensions, the platform
\* reports to createVulkanInstance
MaxInstanceProperties == 2

RECURSIVE SeqsUpTo(_, _)
SeqsUpTo(S, n) ==
    IF n = 0 THEN {<<>>}
    ELSE LET shorter == SeqsUpTo(S, n - 1)
         IN shorter \cup {Append(s, x) : s \in {t \in shorter : Len(t) = n - 1}, x \in S}

Range(s) == {s[k] : k \in 1..Len(s)}

Reverse(s) == [k \in 1..Len(s) |-> s[Len(s) + 1 - k]]

----------------------------------------------------------------------------
(* QueueFamilyIndices *)

\* faulty variant: the two indices start as family 0 instead of empty
EmptyIndicesZero == [graphicsFamily |-> 0, presentationFamily |-> 0]

EmptyIndices == [graphicsFamily |-> NoValue, presentationFamily |-> NoValue]

isComplete(indices) ==
    indices.graphicsFamily # NoValue /\ indices.presentationFamily # NoValue

\* faulty variant: the loop does not stop when both indices are set
RECURSIVE ScanQueueFamiliesNoBreak(_, _, _)
ScanQueueFamiliesNoBreak(queueFamilies, k, indices) ==
    IF k > Len(queueFamilies) THEN indices
    ELSE LET withGraphics ==
                 IF queueFamilies[k].graphics
                 THEN [indices EXCEPT !.graphicsFamily = k - 1]
                 ELSE indices
             withPresent ==
                 IF queueFamilies[k].present
                 THEN [withGraphics EXCEPT !.presentationFamily = k - 1]
                 ELSE withGraphics
         IN ScanQueueFamiliesNoBreak(queueFamilies, k + 1, withPresent)

\* One pass of the loop of findQueueFamilies over the family at position k
\* (family index k - 1).  A family is [graphics |-> the GRAPHICS bit of its
\* queueFlags, present |-> the answer of vkGetPhysicalDeviceSurfaceSupportKHR].
RECURSIVE ScanQueueFamilies(_, _, _)
ScanQueueFamilies(queueFamilies, k, indices) ==
    IF k > Len(queueFamilies) THEN indices
    ELSE LET withGraphics ==
                 IF queueFamilies[k].graphics
                 THEN [indices EXCEPT !.graphicsFamily = k - 1]
                 ELSE indices
             withPresent ==
                 IF queueFamilies[k].present
                 THEN [withGraphics EXCEPT !.presentationFamily = k - 1]
                 ELSE withGraphics
         IN IF isComplete(withPresent)
            THEN withPresent
            ELSE ScanQueueFamilies(queueFamilies, k + 1, withPresent)

findQueueFamilies(physicalDevice) ==
    ScanQueueFamilies(physicalDevice.queueFamilies, 1, EmptyIndices)

\* The family indices findQueueFamilies examines (those it passes to
\* vkGetPhysicalDeviceSurfaceSupportKHR), in order: the body of the loop runs
\* for the family at position k iff the loop has not stopped on the families
\* before it.
examinedQueueFamilies(physicalDevice) ==
    LET queueFamilies == physicalDevice.queueFamilies
        ran == {k \in 1..Len(queueFamilies) :
                   \/ k = 1
                   \/ ~isComplete(ScanQueueFamilies(SubSeq(queueFamilies, 1, k - 1),
                                                    1, EmptyIndices))}
    IN [j \in 1..Cardinality(ran) |-> j - 1]

----------------------------------------------------------------------------
(* Device suitability *)

\* The loop of checkPhysicalDeviceExtensionsSupport: erase every available
\* extension name from the set of required ones.
RECURSIVE EraseAvailable(_, _, _)
EraseAvailable(availableExtensions, k, requiredExtensions) ==
    IF k > Len(availableExtensions) THEN requiredExtensions
    ELSE EraseAvailable(availableExtensions, k + 1,
                        requiredExtensions \ {availableExtensions[k]})

checkPhysicalDeviceExtensionsSupport(physicalDevice) ==
    EraseAvailable(physicalDevice.extensions, 1, Range(deviceExtensions)) = {}

\* formats and modes of the device for the surface; the capabilities are
\* read by createSwapChain only and are drawn there
querySwapChainSupport(physicalDevice) ==
    [surfaceFormats    |-> physicalDevice.surfaceFormats,
     presentationModes |-> physicalDevice.presentationModes]

\* faulty variant: the swapchain support is queried whatever the extension check says
isPhysicalDeviceSuitableCallsUnguarded(physicalDevice) ==
    <<"findQueueFamilies", "checkPhysicalDeviceExtensionsSupport", "querySwapChainSupport">>

\* the calls isPhysicalDeviceSuitable makes on the device, in order
isPhysicalDeviceSuitableCalls(physicalDevice) ==
    <<"findQueueFamilies", "checkPhysicalDeviceExtensionsSupport">>
        \o (IF checkPhysicalDeviceExtensionsSupport(physicalDevice)
            THEN <<"querySwapChainSupport">>
            ELSE <<>>)

\* faulty variant: suitability decided by the queue families alone
isPhysicalDeviceSuitableQueuesOnly(physicalDevice) ==
    isComplete(findQueueFamilies(physicalDevice))

isPhysicalDeviceSuitable(physicalDevice) ==
    LET indices == findQueueFamilies(physicalDevice)
        deviceExtensionsSupported == checkPhysicalDeviceExtensionsSupport(physicalDevice)
        swapChainSupportAdequate ==
            IF deviceExtensionsSupported
            THEN LET swapChainSupportDetails == querySwapChainSupport(physicalDevice)
                 IN swapChainSupportDetails.surfaceFormats # <<>>
                    /\ swapChainSupportDetails.presentationModes # <<>>
            ELSE FALSE
    IN isComplete(indices) /\ deviceExtensionsSupported /\ swapChainSupportAdequate

----------------------------------------------------------------------------
(* Physical device selection *)

\* faulty variant: the loop stops at the first suitable device, whatever its class
RECURSIVE PickLoopFirstSuitable(_, _, _)
PickLoopFirstSuitable(devices, k, picked) ==
    IF k > Len(devices) THEN picked
    ELSE IF isPhysicalDeviceSuitable(devices[k])
         THEN k
         ELSE PickLoopFirstSuitable(devices, k + 1, picked)

\* faulty variant: the loop stores every device, suitable or not
RECURSIVE PickLoopUnchecked(_, _, _)
PickLoopUnchecked(devices, k, picked) ==
    IF k > Len(devices) THEN picked
    ELSE IF devices[k].deviceType = "DISCRETE_GPU"
         THEN k
         ELSE PickLoopUnchecked(devices, k + 1, k)

\* The loop of pickVulkanPhysicalDevice from position k on; picked is the
\* value of vulkanPhysicalDevice so far.
RECURSIVE PickLoop(_, _, _)
PickLoop(devices, k, picked) ==
    IF k > Len(devices) THEN picked
    ELSE IF isPhysicalDeviceSuitable(devices[k])
         THEN IF devices[k].deviceType = "DISCRETE_GPU"
              THEN k
              ELSE PickLoop(devices, k + 1, k)
         ELSE PickLoop(devices, k + 1, picked)

\* faulty variant: the device count is not checked before the loop
pickWithoutCountCheck(devices, current) ==
    LET picked == PickLoop(devices, 1, current)
    IN IF picked = VK_NULL_HANDLE
       THEN [error |-> "no suitable physical device", device |-> picked]
       ELSE [error |-> "none", device |-> picked]

\* [error, device]: the exception raised ("none" if none) and the value of
\* vulkanPhysicalDevice afterwards
pickVulkanPhysicalDevice(devices, current) ==
    IF Len(devices) = 0
    THEN [error |-> "no physical devices", device |-> current]
    ELSE LET picked == PickLoop(devices, 1, current)
         IN IF picked = VK_NULL_HANDLE
            THEN [error |-> "no suitable physical device", device |-> picked]
            ELSE [error |-> "none", device |-> picked]

----------------------------------------------------------------------------
(* Swapchain negotiation *)

RECURSIVE FirstPreferred(_, _)
FirstPreferred(availableSurfaceFormats, k) ==
    IF k > Len(availableSurfaceFormats) THEN 0
    ELSE IF availableSurfaceFormats[k].format = "B8G8R8A8_SRGB"
            /\ availableSurfaceFormats[k].colorSpace = "SRGB_NONLINEAR"
         THEN k
         ELSE FirstPreferred(availableSurfaceFormats, k + 1)

\* faulty variant: the color space is not compared
chooseSwapSurfaceFormatByFormatOnly(availableSurfaceFormats) ==
    LET matching == {k \in 1..Len(availableSurfaceFormats) :
                        availableSurfaceFormats[k].format = "B8G8R8A8_SRGB"}
    IN IF matching # {}
       THEN [error |-> "none",
             value |-> availableSurfaceFormats[CHOOSE k \in matching :
                                                  \A j \in matching : k <= j]]
       ELSE IF Len(availableSurfaceFormats) = 0
            THEN [error |-> "out_of_range", value |-> PreferredSurfaceFormat]
            ELSE [error |-> "none", value |-> availableSurfaceFormats[1]]

\* [error, value]: vector::at(0) raises std::out_of_range on an empty list
chooseSwapSurfaceFormat(availableSurfaceFormats) ==
    LET k == FirstPreferred(availableSurfaceFormats, 1)
    IN IF k # 0 THEN [error |-> "none", value |-> availableSurfaceFormats[k]]
       ELSE IF Len(availableSurfaceFormats) = 0
            THEN [error |-> "out_of_range", value |-> PreferredSurfaceFormat]
            ELSE [error |-> "none", value |-> availableSurfaceFormats[1]]

\* faulty variant: only the first entry of the list is looked at
chooseSwapPresentationModeFirstOnly(availablePresentationModes) ==
    IF availablePresentationModes # <<>> /\ availablePresentationModes[1] = "MAILBOX"
    THEN "MAILBOX"
    ELSE "FIFO"

chooseSwapPresentationMode(availablePresentationModes) ==
    IF \E k \in 1..Len(availablePresentationModes) :
           availablePresentationModes[k] = "MAILBOX"
    THEN "MAILBOX"
    ELSE "FIFO"

\* std::clamp(v, lo, hi).  With hi < lo the behaviour is undefined: the
\* outcomes are those of the three standard-library implementations (which
\* differ in the order of their comparisons) and, in a checked build, an
\* assertion failure ("abort").  A singleton otherwise.
clamp(v, lo, hi) ==
    IF hi < lo
    THEN { IF hi < v THEN hi ELSE IF v < lo THEN lo ELSE v,
           IF v < lo THEN lo ELSE IF hi < v THEN hi ELSE v,
           hi }
    ELSE { IF v < lo THEN lo ELSE IF hi < v THEN hi ELSE v }

clampAborts(lo, hi) == hi < lo

\* faulty variant: the framebuffer size is returned as it is
chooseSwapExtentUnclamped(capabilities, framebuffer) ==
    IF capabilities.currentExtent.width # UINT32_MAX
    THEN {capabilities.currentExtent}
    ELSE {framebuffer}

\* the extents chooseSwapExtent can return; framebuffer is the answer of
\* glfwGetFramebufferSize
chooseSwapExtent(capabilities, framebuffer) ==
    IF capabilities.currentExtent.width # UINT32_MAX
    THEN {capabilities.currentExtent}
    ELSE {[width |-> w, height |-> h] :
             w \in clamp(framebuffer.width, capabilities.minImageExtent.width,
                         capabilities.maxImageExtent.width),
             h \in clamp(framebuffer.height, capabilities.minImageExtent.height,
                         capabilities.maxImageExtent.height)}

\* faulty variant: one more than the minimum, whatever the maximum
swapChainImagesCountUnclamped(capabilities) ==
    {capabilities.minImageCount + 1}

\* the image counts createSwapChain can request
swapChainImagesCount(capabilities) ==
    clamp(capabilities.minImageCount + 1, capabilities.minImageCount,
          capabilities.maxImageCount)

----------------------------------------------------------------------------
(* Instance creation *)

\* the loop of checkValidationLayersSupport from requested layer k on
RECURSIVE LayersFound(_, _)
LayersFound(availableInstanceLayers, k) ==
    IF k > Len(vulkanValidationLayers) THEN TRUE
    ELSE IF vulkanValidationLayers[k] \in Range(availableInstanceLayers)
         THEN LayersFound(availableInstanceLayers, k + 1)
         ELSE FALSE

\* faulty variant: any available layer counts as support
checkValidationLayersSupportAnyLayer(availableInstanceLayers) ==
    availableInstanceLayers # <<>>

checkValidationLayersSupport(availableInstanceLayers) ==
    LayersFound(availableInstanceLayers, 1)

\* The debug-build loop over the extensions GLFW requires, from name k on:
\* TRUE iff it raises.  glfwExtensionFound is declared before the loop and is
\* not reset between iterations.
RECURSIVE GlfwLoopThrows(_, _, _, _)
GlfwLoopThrows(glfwExtensionNames, vulkanExtensions, k, glfwExtensionFound) ==
    IF k > Len(glfwExtensionNames) THEN FALSE
    ELSE LET found == glfwExtensionFound
                      \/ glfwExtensionNames[k] \in Range(vulkanExtensions)
         IN IF ~found THEN TRUE
            ELSE GlfwLoopThrows(glfwExtensionNames, vulkanExtensions, k + 1, found)

\* the exception createVulkanInstance raises, "none" if it creates the instance
createVulkanInstance(debug, availableInstanceLayers, glfwExtensionNames, vulkanExtensions, vkSuccess) ==
    IF debug /\ ~checkValidationLayersSupport(availableInstanceLayers)
    THEN "validation layers not available"
    ELSE IF debug /\ GlfwLoopThrows(glfwExtensionNames, vulkanExtensions, 1, FALSE)
    THEN "unsupported GLFW extensions"
    ELSE IF ~vkSuccess
    THEN "failed to create instance"
    ELSE "none"

----------------------------------------------------------------------------
(* The platform's answers in a run *)

Family(g, p) == [graphics |-> g, present |-> p]

RunQueueFamilies ==
    { <<Family(TRUE, FALSE)>>,
      <<Family(TRUE, TRUE)>>,
      <<Family(TRUE, FALSE), Family(FALSE, TRUE)>> }

RunDevices ==
    [deviceType        : {"DISCRETE_GPU", "INTEGRATED_GPU"},
     queueFamilies     : RunQueueFamilies,
     extensions        : {<<>>, deviceExtensions},
     surfaceFormats    : {<<[format |-> "R8G8B8A8_UNORM", colorSpace |-> "SRGB_NONLINEAR"],
                            PreferredSurfaceFormat>>},
     presentationModes : {<<"FIFO", "MAILBOX">>}]

Extent(w, h) == [width |-> w, height |-> h]

RunSurfaceCapabilities ==
    {c \in [minImageCount  : 1..2,
            maxImageCount  : 0..MaxSwapChainImages,
            currentExtent  : {Extent(UINT32_MAX, UINT32_MAX), Extent(WIDTH, HEIGHT)},
            minImageExtent : {Extent(1, 1)},
            maxImageExtent : {Extent(640, 480)}] :
        c.maxImageCount = 0 \/ c.minImageCount <= c.maxImageCount}

NoCapabilities ==
    [minImageCount |-> 0, maxImageCount |-> 0, currentExtent |-> Extent(0, 0),
     minImageExtent |-> Extent(0, 0), maxImageExtent |-> Extent(0, 0)]

InstanceLayerLists == {<<>>, <<"VK_LAYER_KHRONOS_validation">>}

GlfwExtensionNames == <<"VK_KHR_surface", "VK_KHR_win32_surface">>

InstanceExtensionLists == SeqsUpTo(Range(GlfwExtensionNames), 2)

----------------------------------------------------------------------------
(* run() *)

\* an object handle as the platform sees it
H(kind, id) == [kind |-> kind, id |-> id]

NoRequest == [sharingMode |-> "none", queueFamilyIndices |-> <<>>, minImageCount |-> 0,
              imageFormat |-> "none", imageColorSpace |-> "none",
              imageExtent |-> Extent(0, 0), presentMode |-> "none"]

NoCall == [fn |-> "none"]

InitApp ==
    /\ err = "none"
    /\ app \in [enableVulkanValidationLayers : BOOLEAN,
                window : {VK_NULL_HANDLE},
                vulkanInstance : {VK_NULL_HANDLE},
                vulkanPhysicalDevice : {VK_NULL_HANDLE},
                vulkanLogicalDevice : {VK_NULL_HANDLE},
                deviceGraphicsQueue : {VK_NULL_HANDLE},
                devicePresentationQueue : {VK_NULL_HANDLE},
                vulkanSurface : {VK_NULL_HANDLE},
                vulkanSwapChain : {VK_NULL_HANDLE},
                vulkanSwapChainImageFormat : {"unset"},
                vulkanSwapChainImageColorspace : {"unset"},
                vulkanSwapChainExtent : {Extent(0, 0)},
                vulkanSwapChainImages : {<<>>},
                vulkanSwapChainImageViews : {<<>>},
                vulkanRenderPass : {VK_NULL_HANDLE},
                vulkanPipelineLayout : {VK_NULL_HANDLE},
                vulkanGraphicsPipeline : {VK_NULL_HANDLE}]
    /\ frame = [vertShaderModule |-> VK_NULL_HANDLE, fragShaderModule |-> VK_NULL_HANDLE,
                i |-> 0]
    /\ windowShouldClose = FALSE
    /\ surfaceCapabilities = NoCapabilities
    /\ queueCreateInfos = <<>>
    /\ swapChainCreateInfo = NoRequest
    /\ created = <<>>
    /\ destroyed = <<>>
    /\ steps = <<>>

Init ==
    /\ InitApp
    /\ pc = "initWindow"
    /\ physicalDevicesList \in SeqsUpTo(RunDevices, MaxDevices)
    /\ call = NoCall
    /\ ret = NoCall

\* faulty variant: run() goes on to cleanup when a step raises
ThrowIntoCleanup(e) == pc' = "vkDestroyPipeline" /\ err' = e

Throw(e) == pc' = "failed" /\ err' = e

Goto(l) == pc' = l /\ err' = err

Enter(step) == steps' = Append(steps, step)

Create(kind, id) == created' = Append(created, H(kind, id))

Destroy(kind, id) == destroyed' = Append(destroyed, H(kind, id))

InitWindow ==
    /\ pc = "initWindow"
    /\ app' = [app EXCEPT !.window = 1]
    /\ Goto("createVulkanInstance")
    /\ UNCHANGED <<frame, platformVars, steps, call, ret>>

CreateVulkanInstance ==
    /\ pc = "createVulkanInstance"
    /\ Enter("createVulkanInstance")
    /\ \E availableInstanceLayers \in InstanceLayerLists,
          vulkanExtensions \in InstanceExtensionLists,
          vkSuccess \in BOOLEAN :
          LET e == createVulkanInstance(app.enableVulkanValidationLayers,
                                        availableInstanceLayers, GlfwExtensionNames,
                                        vulkanExtensions, vkSuccess)
          IN IF e = "none"
             THEN /\ app' = [app EXCEPT !.vulkanInstance = 1]
                  /\ Create("instance", 1)
                  /\ Goto("createVulkanSurface")
             ELSE /\ Throw(e)
                  /\ UNCHANGED <<app, created>>
    /\ UNCHANGED <<frame, windowShouldClose, physicalDevicesList, surfaceCapabilities,
                   queueCreateInfos, swapChainCreateInfo, destroyed, call, ret>>

\* faulty variant: the result of glfwCreateWindowSurface is not checked
CreateVulkanSurfaceUnchecked ==
    /\ pc = "createVulkanSurface"
    /\ Enter("createVulkanSurface")
    /\ \E vkSuccess \in BOOLEAN :
          IF vkSuccess
          THEN /\ app' = [app EXCEPT !.vulkanSurface = 1]
               /\ Create("surface", 1)
          ELSE UNCHANGED <<app, created>>
    /\ Goto("pickVulkanPhysicalDevice")
    /\ UNCHANGED <<frame, windowShouldClose, physicalDevicesList, surfaceCapabilities,
                   queueCreateInfos, swapChainCreateInfo, destroyed, call, ret>>

CreateVulkanSurface ==
    /\ pc = "createVulkanSurface"
    /\ Enter("createVulkanSurface")
    /\ \E vkSuccess \in BOOLEAN :
          IF vkSuccess
          THEN /\ app' = [app EXCEPT !.vulkanSurface = 1]
               /\ Create("surface", 1)
               /\ Goto("pickVulkanPhysicalDevice")
          ELSE /\ Throw("failed to create surface")
               /\ UNCHANGED <<app, created>>
    /\ UNCHANGED <<frame, windowShouldClose, physicalDevicesList, surfaceCapabilities,
                   queueCreateInfos, swapChainCreateInfo, destroyed, call, ret>>

PickVulkanPhysicalDevice ==
    /\ pc = "pickVulkanPhysicalDevice"
    /\ Enter("pickVulkanPhysicalDevice")
    /\ LET r == pickVulkanPhysicalDevice(physicalDevicesList, app.vulkanPhysicalDevice)
       IN /\ app' = [app EXCEPT !.vulkanPhysicalDevice = r.device]
          /\ IF r.error = "none" THEN Goto("createLogicalDevice") ELSE Throw(r.error)
    /\ UNCHANGED <<frame, platformVars, call, ret>>

\* faulty variant: the two indices are kept in a list, duplicates included
ListOfTwo(a, b) == <<a, b>>

\* the elements of std::set<uint32_t>{a, b} in iteration order
SetOfTwo(a, b) == IF a = b THEN <<a>> ELSE IF a < b THEN <<a, b>> ELSE <<b, a>>

CreateLogicalDevice ==
    /\ pc = "createLogicalDevice"
    /\ Enter("createLogicalDevice")
    /\ IF app.vulkanPhysicalDevice = VK_NULL_HANDLE
       THEN /\ Throw("physical device is NULL")
            /\ UNCHANGED <<app, created, queueCreateInfos>>
       ELSE LET queueFamilyIndices ==
                    findQueueFamilies(physicalDevicesList[app.vulkanPhysicalDevice])
                requiredQueueFamilies ==
                    SetOfTwo(queueFamilyIndices.graphicsFamily,
                             queueFamilyIndices.presentationFamily)
            IN IF ~isComplete(queueFamilyIndices)
               THEN /\ Throw("bad_optional_access")
                    /\ UNCHANGED <<app, created, queueCreateInfos>>
               ELSE /\ queueCreateInfos' =
                           [k \in 1..Len(requiredQueueFamilies) |->
                               [queueFamilyIndex |-> requiredQueueFamilies[k],
                                queueCount |-> 1]]
                    /\ \E vkSuccess \in BOOLEAN :
                          IF vkSuccess
                          THEN /\ app' = [app EXCEPT
                                     !.vulkanLogicalDevice = 1,
                                     !.deviceGraphicsQueue =
                                         queueFamilyIndices.graphicsFamily + 1,
                                     !.devicePresentationQueue =
                                         queueFamilyIndices.presentationFamily + 1]
                               /\ Create("device", 1)
                               /\ Goto("createSwapChain")
                          ELSE /\ Throw("failed to create logical device")
                               /\ UNCHANGED <<app, created>>
    /\ UNCHANGED <<frame, windowShouldClose, physicalDevicesList, surfaceCapabilities,
                   swapChainCreateInfo, destroyed, call, ret>>

\* faulty variant: exclusive sharing whatever the family indices
SwapChainRequestAlwaysExclusive(surfaceFormat, presentationMode, swapExtent, count, queueFamilyIndices) ==
    [minImageCount      |-> count,
     imageFormat        |-> surfaceFormat.format,
     imageColorSpace    |-> surfaceFormat.colorSpace,
     imageExtent        |-> swapExtent,
     presentMode        |-> presentationMode,
     sharingMode        |-> "EXCLUSIVE",
     queueFamilyIndices |-> <<>>]

\* the request createSwapChain builds from its choices
SwapChainRequest(surfaceFormat, presentationMode, swapExtent, count, queueFamilyIndices) ==
    [minImageCount      |-> count,
     imageFormat        |-> surfaceFormat.format,
     imageColorSpace    |-> surfaceFormat.colorSpace,
     imageExtent        |-> swapExtent,
     presentMode        |-> presentationMode,
     sharingMode        |-> IF queueFamilyIndices.graphicsFamily
                                 # queueFamilyIndices.presentationFamily
                            THEN "CONCURRENT" ELSE "EXCLUSIVE",
     queueFamilyIndices |-> IF queueFamilyIndices.graphicsFamily
                                 # queueFamilyIndices.presentationFamily
                            THEN <<queueFamilyIndices.graphicsFamily,
                                   queueFamilyIndices.presentationFamily>>
                            ELSE <<>>]

\* the numbers of images the platform may create for a request
ImageCounts(capabilities, count) ==
    {n \in 1..MaxSwapChainImages :
        /\ n >= count
        /\ n >= capabilities.minImageCount
        /\ capabilities.maxImageCount = 0 \/ n <= capabilities.maxImageCount}

CreateSwapChain ==
    /\ pc = "createSwapChain"
    /\ Enter("createSwapChain")
    /\ IF app.vulkanPhysicalDevice = VK_NULL_HANDLE \/ app.vulkanLogicalDevice = VK_NULL_HANDLE
       THEN /\ Throw("device is NULL")
            /\ UNCHANGED <<app, created, surfaceCapabilities, swapChainCreateInfo>>
       ELSE \E capabilities \in RunSurfaceCapabilities :
            LET physicalDevice == physicalDevicesList[app.vulkanPhysicalDevice]
                swapChainSupport == querySwapChainSupport(physicalDevice)
                surfaceFormat == chooseSwapSurfaceFormat(swapChainSupport.surfaceFormats)
                presentationMode ==
                    chooseSwapPresentationMode(swapChainSupport.presentationModes)
                queueFamilyIndices == findQueueFamilies(physicalDevice)
            IN /\ surfaceCapabilities' = capabilities
               /\ IF surfaceFormat.error # "none"
                  THEN /\ Throw(surfaceFormat.error)
                       /\ UNCHANGED <<app, created, swapChainCreateInfo>>
                  ELSE \/ /\ clampAborts(capabilities.minImageCount,
                                         capabilities.maxImageCount)
                          /\ pc' = "aborted"
                          /\ UNCHANGED <<err, app, created, swapChainCreateInfo>>
                       \/ /\ ~isComplete(queueFamilyIndices)
                          /\ Throw("bad_optional_access")
                          /\ UNCHANGED <<app, created, swapChainCreateInfo>>
                       \/ /\ isComplete(queueFamilyIndices)
                          /\ \E swapExtent \in chooseSwapExtent(capabilities,
                                                               Extent(WIDTH, HEIGHT)),
                                count \in swapChainImagesCount(capabilities),
                                vkSuccess \in BOOLEAN :
                                /\ swapChainCreateInfo' =
                                       SwapChainRequest(surfaceFormat.value, presentationMode,
                                                        swapExtent, count, queueFamilyIndices)
                                /\ IF vkSuccess
                                   THEN \E n \in ImageCounts(capabilities, count) :
                                        /\ app' = [app EXCEPT
                                              !.vulkanSwapChain = 1,
                                              !.vulkanSwapChainImageFormat =
                                                  surfaceFormat.value.format,
                                              !.vulkanSwapChainImageColorspace =
                                                  surfaceFormat.value.colorSpace,
                                              !.vulkanSwapChainExtent = swapExtent,
                                              !.vulkanSwapChainImages = [k \in 1..n |-> k]]
                                        /\ Create("swapchain", 1)
                                        /\ Goto("createSwapChainImageViews")
                                   ELSE /\ Throw("failed to create the swapchain")
                                        /\ UNCHANGED <<app, created>>
    /\ UNCHANGED <<frame, windowShouldClose, physicalDevicesList, queueCreateInfos,
                   destroyed, call, ret>>

\* createSwapChainImageViews: the resize, then one pass of the loop per image
ResizeImageViews ==
    /\ pc = "createSwapChainImageViews"
    /\ Enter("createSwapChainImageViews")
    /\ app' = [app EXCEPT !.vulkanSwapChainImageViews =
                  [k \in 1..Len(app.vulkanSwapChainImages) |->
                      IF k <= Len(app.vulkanSwapChainImageViews)
                      THEN app.vulkanSwapChainImageViews[k]
                      ELSE VK_NULL_HANDLE]]
    /\ frame' = [frame EXCEPT !.i = 0]
    /\ Goto("createImageView")
    /\ UNCHANGED <<platformVars, call, ret>>

\* faulty variant: every view is stored in the first slot of the sequence
CreateImageViewIntoFirstSlot ==
    /\ pc = "createImageView"
    /\ frame.i < Len(app.vulkanSwapChainImages)
    /\ \E vkSuccess \in BOOLEAN :
          IF vkSuccess
          THEN /\ app' = [app EXCEPT !.vulkanSwapChainImageViews[1] =
                                         app.vulkanSwapChainImages[frame.i + 1]]
               /\ Create("imageView", app.vulkanSwapChainImages[frame.i + 1])
               /\ frame' = [frame EXCEPT !.i = frame.i + 1]
               /\ Goto("createImageView")
          ELSE /\ Throw("failed to create image-views")
               /\ UNCHANGED <<app, created, frame>>
    /\ UNCHANGED <<windowShouldClose, physicalDevicesList, surfaceCapabilities,
                   queueCreateInfos, swapChainCreateInfo, destroyed, steps, call, ret>>

CreateImageView ==
    /\ pc = "createImageView"
    /\ frame.i < Len(app.vulkanSwapChainImages)
    /\ \E vkSuccess \in BOOLEAN :
          IF vkSuccess
          THEN /\ app' = [app EXCEPT !.vulkanSwapChainImageViews[frame.i + 1] =
                                         app.vulkanSwapChainImages[frame.i + 1]]
               /\ Create("imageView", app.vulkanSwapChainImages[frame.i + 1])
               /\ frame' = [frame EXCEPT !.i = frame.i + 1]
               /\ Goto("createImageView")
          ELSE /\ Throw("failed to create image-views")
               /\ UNCHANGED <<app, created, frame>>
    /\ UNCHANGED <<windowShouldClose, physicalDevicesList, surfaceCapabilities,
                   queueCreateInfos, swapChainCreateInfo, destroyed, steps, call, ret>>

ImageViewsCreated ==
    /\ pc = "createImageView"
    /\ frame.i >= Len(app.vulkanSwapChainImages)
    /\ Goto("createRenderPass")
    /\ UNCHANGED <<app, frame, platformVars, steps, call, ret>>

CreateRenderPass ==
    /\ pc = "createRenderPass"
    /\ Enter("createRenderPass")
    /\ \E vkSuccess \in BOOLEAN :
          IF vkSuccess
          THEN /\ app' = [app EXCEPT !.vulkanRenderPass = 1]
               /\ Create("renderPass", 1)
               /\ Goto("createGraphicsPipeline")
          ELSE /\ Throw("failed to create render pass")
               /\ UNCHANGED <<app, created>>
    /\ UNCHANGED <<frame, windowShouldClose, physicalDevicesList, surfaceCapabilities,
                   queueCreateInfos, swapChainCreateInfo, destroyed, call, ret>>

\* createGraphicsPipeline: readFile twice, then one step per platform call
ReadShaderFiles ==
    /\ pc = "createGraphicsPipeline"
    /\ Enter("createGraphicsPipeline")
    /\ \E vertOpen \in BOOLEAN, fragOpen \in BOOLEAN :
          IF vertOpen /\ fragOpen
          THEN Goto("createVertShaderModule")
          ELSE Throw("failed to open file")
    /\ UNCHANGED <<app, frame, platformVars, call, ret>>

CreateVertShaderModule ==
    /\ pc = "createVertShaderModule"
    /\ \E vkSuccess \in BOOLEAN :
          IF vkSuccess
          THEN /\ frame' = [frame EXCEPT !.vertShaderModule = 1]
               /\ Create("shaderModule", 1)
               /\ Goto("createFragShaderModule")
          ELSE /\ Throw("failed to create shader module")
               /\ UNCHANGED <<frame, created>>
    /\ UNCHANGED <<app, windowShouldClose, physicalDevicesList, surfaceCapabilities,
                   queueCreateInfos, swapChainCreateInfo, destroyed, steps, call, ret>>

CreateFragShaderModule ==
    /\ pc = "createFragShaderModule"
    /\ \E vkSuccess \in BOOLEAN :
          IF vkSuccess
          THEN /\ frame' = [frame EXCEPT !.fragShaderModule = 2]
               /\ Create("shaderModule", 2)
               /\ Goto("vkCreatePipelineLayout")
          ELSE /\ Throw("failed to create shader module")
               /\ UNCHANGED <<frame, created>>
    /\ UNCHANGED <<app, windowShouldClose, physicalDevicesList, surfaceCapabilities,
                   queueCreateInfos, swapChainCreateInfo, destroyed, steps, call, ret>>

CreatePipelineLayout ==
    /\ pc = "vkCreatePipelineLayout"
    /\ \E vkSuccess \in BOOLEAN :
          IF vkSuccess
          THEN /\ app' = [app EXCEPT !.vulkanPipelineLayout = 1]
               /\ Create("pipelineLayout", 1)
               /\ Goto("vkCreateGraphicsPipelines")
          ELSE /\ Throw("failed to create pipeline layout")
               /\ UNCHANGED <<app, created>>
    /\ UNCHANGED <<frame, windowShouldClose, physicalDevicesList, surfaceCapabilities,
                   queueCreateInfos, swapChainCreateInfo, destroyed, steps, call, ret>>

CreateGraphicsPipelines ==
    /\ pc = "vkCreateGraphicsPipelines"
    /\ \E vkSuccess \in BOOLEAN :
          IF vkSuccess
          THEN /\ app' = [app EXCEPT !.vulkanGraphicsPipeline = 1]
               /\ Create("pipeline", 1)
               /\ Goto("destroyVertShaderModule")
          ELSE /\ Throw("failed to create graphics pipeline")
               /\ UNCHANGED <<app, created>>
    /\ UNCHANGED <<frame, windowShouldClose, physicalDevicesList, surfaceCapabilities,
                   queueCreateInfos, swapChainCreateInfo, destroyed, steps, call, ret>>

DestroyVertShaderModule ==
    /\ pc = "destroyVertShaderModule"
    /\ Destroy("shaderModule", frame.vertShaderModule)
    /\ Goto("destroyFragShaderModule")
    /\ UNCHANGED <<app, frame, windowShouldClose, physicalDevicesList, surfaceCapabilities,
                   queueCreateInfos, swapChainCreateInfo, created, steps, call, ret>>

DestroyFragShaderModule ==
    /\ pc = "destroyFragShaderModule"
    /\ Destroy("shaderModule", frame.fragShaderModule)
    /\ Goto("mainLoop")
    /\ UNCHANGED <<app, frame, windowShouldClose, physicalDevicesList, surfaceCapabilities,
                   queueCreateInfos, swapChainCreateInfo, created, steps, call, ret>>

\* mainLoop: glfwPollEvents may find the close request
PollEvents ==
    /\ pc = "mainLoop"
    /\ ~windowShouldClose
    /\ windowShouldClose' \in BOOLEAN
    /\ Goto("mainLoop")
    /\ UNCHANGED <<app, frame, physicalDevicesList, surfaceCapabilities, queueCreateInfos,
                   swapChainCreateInfo, created, destroyed, steps, call, ret>>

\* faulty variant: the loop is left without a close request
ExitMainLoopWithoutRequest ==
    /\ pc = "mainLoop"
    /\ Goto("vkDestroyPipeline")
    /\ UNCHANGED <<app, frame, platformVars, steps, call, ret>>

ExitMainLoop ==
    /\ pc = "mainLoop"
    /\ windowShouldClose
    /\ Goto("vkDestroyPipeline")
    /\ UNCHANGED <<app, frame, platformVars, steps, call, ret>>

\* cleanup: one step per platform call
DestroyPipeline ==
    /\ pc = "vkDestroyPipeline"
    /\ Destroy("pipeline", app.vulkanGraphicsPipeline)
    /\ Goto("vkDestroyPipelineLayout")
    /\ UNCHANGED <<app, frame, windowShouldClose, physicalDevicesList, surfaceCapabilities,
                   queueCreateInfos, swapChainCreateInfo, created, steps, call, ret>>

\* faulty variant: cleanup destroys the logical device before the objects made from it
DestroyPipelineLayoutAfterDevice ==
    /\ pc = "vkDestroyPipelineLayout"
    /\ destroyed' = destroyed \o <<H("device", app.vulkanLogicalDevice),
                                   H("pipelineLayout", app.vulkanPipelineLayout)>>
    /\ Goto("vkDestroyRenderPass")
    /\ UNCHANGED <<app, frame, windowShouldClose, physicalDevicesList, surfaceCapabilities,
                   queueCreateInfos, swapChainCreateInfo, created, steps, call, ret>>

DestroyPipelineLayout ==
    /\ pc = "vkDestroyPipelineLayout"
    /\ Destroy("pipelineLayout", app.vulkanPipelineLayout)
    /\ Goto("vkDestroyRenderPass")
    /\ UNCHANGED <<app, frame, windowShouldClose, physicalDevicesList, surfaceCapabilities,
                   queueCreateInfos, swapChainCreateInfo, created, steps, call, ret>>

DestroyRenderPass ==
    /\ pc = "vkDestroyRenderPass"
    /\ Destroy("renderPass", app.vulkanRenderPass)
    /\ frame' = [frame EXCEPT !.i = 0]
    /\ Goto("vkDestroyImageView")
    /\ UNCHANGED <<app, windowShouldClose, physicalDevicesList, surfaceCapabilities,
                   queueCreateInfos, swapChainCreateInfo, created, steps, call, ret>>

\* the range-for over vulkanSwapChainImageViews, first to last
DestroyImageView ==
    /\ pc = "vkDestroyImageView"
    /\ frame.i < Len(app.vulkanSwapChainImageViews)
    /\ Destroy("imageView", app.vulkanSwapChainImageViews[frame.i + 1])
    /\ frame' = [frame EXCEPT !.i = frame.i + 1]
    /\ Goto("vkDestroyImageView")
    /\ UNCHANGED <<app, windowShouldClose, physicalDevicesList, surfaceCapabilities,
                   queueCreateInfos, swapChainCreateInfo, created, steps, call, ret>>

ImageViewsDestroyed ==
    /\ pc = "vkDestroyImageView"
    /\ frame.i >= Len(app.vulkanSwapChainImageViews)
    /\ Goto("vkDestroySwapchainKHR")
    /\ UNCHANGED <<app, frame, platformVars, steps, call, ret>>

\* faulty variant: cleanup does not destroy the swapchain
DestroySwapchainForgotten ==
    /\ pc = "vkDestroySwapchainKHR"
    /\ Goto("vkDestroyDevice")
    /\ UNCHANGED <<app, frame, platformVars, steps, call, ret>>

DestroySwapchain ==
    /\ pc = "vkDestroySwapchainKHR"
    /\ Destroy("swapchain", app.vulkanSwapChain)
    /\ Goto("vkDestroyDevice")
    /\ UNCHANGED <<app, frame, windowShouldClose, physicalDevicesList, surfaceCapabilities,
                   queueCreateInfos, swapChainCreateInfo, created, steps, call, ret>>

DestroyDevice ==
    /\ pc = "vkDestroyDevice"
    /\ Destroy("device", app.vulkanLogicalDevice)
    /\ Goto("vkDestroySurfaceKHR")
    /\ UNCHANGED <<app, frame, windowShouldClose, physicalDevicesList, surfaceCapabilities,
                   queueCreateInfos, swapChainCreateInfo, created, steps, call, ret>>

DestroySurface ==
    /\ pc = "vkDestroySurfaceKHR"
    /\ Destroy("surface", app.vulkanSurface)
    /\ Goto("vkDestroyInstance")
    /\ UNCHANGED <<app, frame, windowShouldClose, physicalDevicesList, surfaceCapabilities,
                   queueCreateInfos, swapChainCreateInfo, created, steps, call, ret>>

DestroyInstance ==
    /\ pc = "vkDestroyInstance"
    /\ Destroy("instance", app.vulkanInstance)
    /\ Goto("glfwDestroyWindow")
    /\ UNCHANGED <<app, frame, windowShouldClose, physicalDevicesList, surfaceCapabilities,
                   queueCreateInfos, swapChainCreateInfo, created, steps, call, ret>>

DestroyWindow ==
    /\ pc = "glfwDestroyWindow"
    /\ Goto("done")
    /\ UNCHANGED <<app, frame, platformVars, steps, call, ret>>

Next ==
    \/ InitWindow
    \/ CreateVulkanInstance
    \/ CreateVulkanSurface
    \/ PickVulkanPhysicalDevice
    \/ CreateLogicalDevice
    \/ CreateSwapChain
    \/ ResizeImageViews
    \/ CreateImageView
    \/ ImageViewsCreated
    \/ CreateRenderPass
    \/ ReadShaderFiles
    \/ CreateVertShaderModule
    \/ CreateFragShaderModule
    \/ CreatePipelineLayout
    \/ CreateGraphicsPipelines
    \/ DestroyVertShaderModule
    \/ DestroyFragShaderModule
    \/ PollEvents
    \/ ExitMainLoop
    \/ DestroyPipeline
    \/ DestroyPipelineLayout
    \/ DestroyRenderPass
    \/ DestroyImageView
    \/ ImageViewsDestroyed
    \/ DestroySwapchain
    \/ DestroyDevice
    \/ DestroySurface
    \/ DestroyInstance
    \/ DestroyWindow

Spec == Init /\ [][Next]_vars

\* the steps of cleanup()
cleanup ==
    \/ DestroyPipeline
    \/ DestroyPipelineLayout
    \/ DestroyRenderPass
    \/ DestroyImageView
    \/ ImageViewsDestroyed
    \/ DestroySwapchain
    \/ DestroyDevice
    \/ DestroySurface
    \/ DestroyInstance
    \/ DestroyWindow

\* run() is one thread and every platform call of cleanup returns: once the
\* loop condition of mainLoop is false the run goes on, step by step.  No
\* fairness is assumed of the close request itself.
SpecFair == Spec /\ WF_vars(ExitMainLoop \/ cleanup)

----------------------------------------------------------------------------
(* The functions on their own: one call, on an input drawn from a bounded set *)

FnFamilies == {Family(g, p) : g \in BOOLEAN, p \in BOOLEAN}

FnExtensionLists ==
    { <<>>, <<"VK_KHR_swapchain">>, <<"VK_KHR_maintenance1">>,
      <<"VK_KHR_maintenance1", "VK_KHR_swapchain">>,
      <<"VK_KHR_swapchain", "VK_KHR_swapchain">> }

FnSurfaceFormats ==
    { PreferredSurfaceFormat,
      [format |-> "B8G8R8A8_SRGB", colorSpace |-> "EXTENDED_SRGB_LINEAR"],
      [format |-> "R8G8B8A8_UNORM", colorSpace |-> "SRGB_NONLINEAR"] }

FnDevices ==
    [deviceType        : {"INTEGRATED_GPU"},
     queueFamilies     : SeqsUpTo(FnFamilies, MaxFamilies),
     extensions        : FnExtensionLists,
     surfaceFormats    : SeqsUpTo({PreferredSurfaceFormat}, 1),
     presentationModes : {<<>>, <<"FIFO">>, <<"FIFO", "MAILBOX">>}]

FnPresentationModes == {"FIFO", "MAILBOX", "IMMEDIATE"}

\* capabilities as chooseSwapExtent reads them: the current extent is the
\* sentinel on both axes or a fixed size, and minImageExtent <= maxImageExtent
FnExtentCapabilities ==
    [currentExtent  : {Extent(UINT32_MAX, UINT32_MAX), Extent(WIDTH, HEIGHT), Extent(640, 480)},
     minImageExtent : {Extent(1, 1), Extent(640, 480)},
     maxImageExtent : {Extent(2048, 2048), Extent(800, 600), Extent(640, 480)}]

\* answers of glfwGetFramebufferSize (0x0: a minimized window)
FnFramebuffers ==
    {Extent(1024, 768), Extent(1024, 400), Extent(WIDTH, HEIGHT), Extent(320, 768), Extent(0, 0)}

\* answers of vkEnumerateInstanceLayerProperties
FnInstanceLayerLists ==
    SeqsUpTo({"VK_LAYER_KHRONOS_validation", "VK_LAYER_LUNARG_api_dump"},
             MaxInstanceProperties)

\* answers of glfwGetRequiredInstanceExtensions
FnGlfwExtensionNames == {GlfwExtensionNames, Reverse(GlfwExtensionNames)}

\* answers of vkEnumerateInstanceExtensionProperties
FnInstanceExtensionLists ==
    SeqsUpTo(Range(GlfwExtensionNames) \cup {"VK_EXT_debug_utils"}, MaxInstanceProperties)

InitFn ==
    /\ InitApp
    /\ pc = "call"
    /\ physicalDevicesList = <<>>
    /\ \/ call \in [fn : {"findQueueFamilies", "isPhysicalDeviceSuitable"},
                    input : FnDevices]
       \/ call \in [fn : {"chooseSwapSurfaceFormat"},
                    input : SeqsUpTo(FnSurfaceFormats, MaxFormats)]
       \/ call \in [fn : {"chooseSwapPresentationMode"},
                    input : SeqsUpTo(FnPresentationModes, MaxModes)]
       \/ call \in [fn : {"chooseSwapExtent"},
                    input : [capabilities : FnExtentCapabilities,
                             framebuffer  : FnFramebuffers]]
       \/ call \in [fn : {"createVulkanInstance"},
                    input : [availableInstanceLayers : FnInstanceLayerLists,
                             glfwExtensionNames      : FnGlfwExtensionNames,
                             vulkanExtensions        : FnInstanceExtensionLists,
                             vkSuccess               : BOOLEAN]]
    /\ call.fn # "createVulkanInstance" => app.enableVulkanValidationLayers
    /\ ret = NoCall

Return(value) ==
    /\ ret' = [fn |-> call.fn, value |-> value]
    /\ pc' = "returned"
    /\ UNCHANGED <<err, app, frame, platformVars, steps, call>>

\* as Return, with the calls the function made on the way
ReturnTraced(value, calls) ==
    /\ ret' = [fn |-> call.fn, value |-> value, calls |-> calls]
    /\ pc' = "returned"
    /\ UNCHANGED <<err, app, frame, platformVars, steps, call>>

CallFindQueueFamilies ==
    /\ pc = "call"
    /\ call.fn = "findQueueFamilies"
    /\ ReturnTraced(findQueueFamilies(call.input), examinedQueueFamilies(call.input))

CallIsPhysicalDeviceSuitable ==
    /\ pc = "call"
    /\ call.fn = "isPhysicalDeviceSuitable"
    /\ ReturnTraced(isPhysicalDeviceSuitable(call.input),
                    isPhysicalDeviceSuitableCalls(call.input))

CallChooseSwapSurfaceFormat ==
    /\ pc = "call"
    /\ call.fn = "chooseSwapSurfaceFormat"
    /\ Return(chooseSwapSurfaceFormat(call.input))

CallChooseSwapPresentationMode ==
    /\ pc = "call"
    /\ call.fn = "chooseSwapPresentationMode"
    /\ Return(chooseSwapPresentationMode(call.input))

CallChooseSwapExtent ==
    /\ pc = "call"
    /\ call.fn = "chooseSwapExtent"
    /\ \E swapExtent \in chooseSwapExtent(call.input.capabilities, call.input.framebuffer) :
          Return(swapExtent)

\* the whole of createVulkanInstance: the error it raises, or the instance
CallCreateVulkanInstance ==
    /\ pc = "call"
    /\ call.fn = "createVulkanInstance"
    /\ LET e == createVulkanInstance(app.enableVulkanValidationLayers,
                                     call.input.availableInstanceLayers,
                                     call.input.glfwExtensionNames,
                                     call.input.vulkanExtensions,
                                     call.input.vkSuccess)
       IN /\ ret' = [fn |-> call.fn, value |-> e]
          /\ IF e = "none"
             THEN /\ app' = [app EXCEPT !.vulkanInstance = 1]
                  /\ Create("instance", 1)
             ELSE UNCHANGED <<app, created>>
    /\ pc' = "returned"
    /\ UNCHANGED <<err, frame, windowShouldClose, physicalDevicesList, surfaceCapabilities,
                   queueCreateInfos, swapChainCreateInfo, destroyed, steps, call>>

NextFn ==
    \/ CallFindQueueFamilies
    \/ CallIsPhysicalDeviceSuitable
    \/ CallChooseSwapSurfaceFormat
    \/ CallChooseSwapPresentationMode
    \/ CallChooseSwapExtent
    \/ CallCreateVulkanInstance

SpecFn == InitFn /\ [][NextFn]_vars

----------------------------------------------------------------------------
(* Properties *)

Min(S) == CHOOSE x \in S : \A y \in S : x <= y

Picked == "pickVulkanPhysicalDevice" \in Range(steps)

SuitableDevices ==
    {k \in 1..Len(physicalDevicesList) : isPhysicalDeviceSuitable(physicalDevicesList[k])}

SuitableDiscreteDevices ==
    {k \in SuitableDevices : physicalDevicesList[k].deviceType = "DISCRETE_GPU"}

Alive(kind) ==
    \E k \in 1..Len(created) : created[k].kind = kind /\ created[k] \notin Range(destroyed)

OfKinds(s, kinds) == SelectSeq(s, LAMBDA h : h.kind \in kinds)

\* C1: when the enumerated devices include a suitable device but no suitable
\* discrete one, pickVulkanPhysicalDevice selects the first suitable device of
\* the enumeration, not a later one.
C1_FirstSuitableSelected ==
    (Picked /\ SuitableDevices # {} /\ SuitableDiscreteDevices = {})
        => app.vulkanPhysicalDevice = Min(SuitableDevices)

\* C2: when the enumerated devices include a suitable discrete device,
\* pickVulkanPhysicalDevice raises nothing and selects the first suitable
\* discrete device, also when suitable non-discrete devices come before it.
C2_FirstSuitableDiscreteSelected ==
    (Picked /\ SuitableDiscreteDevices # {})
        => /\ app.vulkanPhysicalDevice = Min(SuitableDiscreteDevices)
           /\ err \notin {"no physical devices", "no suitable physical device"}

C2_Witness ==
    /\ Picked
    /\ Len(physicalDevicesList) = 2
    /\ 1 \in SuitableDevices
    /\ physicalDevicesList[1].deviceType = "INTEGRATED_GPU"
    /\ 2 \in SuitableDiscreteDevices
    /\ app.vulkanPhysicalDevice = 2

\* C3: findQueueFamilies returns as graphics family the lowest family index
\* with the graphics flag and as presentation family the lowest family index
\* that can present to the surface (no value where there is none).
C3_LowestIndices ==
    ret.fn = "findQueueFamilies"
        => LET families == call.input.queueFamilies
               G == {k - 1 : k \in {j \in 1..Len(families) : families[j].graphics}}
               P == {k - 1 : k \in {j \in 1..Len(families) : families[j].present}}
           IN /\ ret.value.graphicsFamily = (IF G = {} THEN NoValue ELSE Min(G))
              /\ ret.value.presentationFamily = (IF P = {} THEN NoValue ELSE Min(P))

\* C4: when the surface capabilities report maxImageCount = 0, the image
\* count createSwapChain requests is minImageCount + 1.
C4_UnboundedMaxNotClamped ==
    (swapChainCreateInfo # NoRequest /\ surfaceCapabilities.maxImageCount = 0)
        => swapChainCreateInfo.minImageCount = surfaceCapabilities.minImageCount + 1

C6_DependencyOrder ==
    LET allViews == \A k \in 1..Len(app.vulkanSwapChainImages) :
                        H("imageView", app.vulkanSwapChainImages[k])
                            \in Range(created) \ Range(destroyed)
    IN /\ Alive("surface") => Alive("instance")
       /\ (app.vulkanPhysicalDevice # VK_NULL_HANDLE)
              => {H("instance", 1), H("surface", 1)} \subseteq Range(created)
       /\ Alive("device") => (Alive("surface") /\ app.vulkanPhysicalDevice # VK_NULL_HANDLE)
       /\ Alive("swapchain") => Alive("device")
       /\ Alive("imageView") => Alive("swapchain")
       /\ Alive("renderPass") => (allViews /\ Alive("swapchain"))
       /\ Alive("pipelineLayout") => Alive("renderPass")
       /\ Alive("pipeline") => Alive("pipelineLayout")

C6_Witness ==
    /\ pc = "vkDestroyDevice"
    /\ Alive("device")
    /\ ~Alive("swapchain")
    /\ Len(destroyed) >= 7

\* C7: isPhysicalDeviceSuitable is true exactly when findQueueFamilies gives
\* both families, every required device extension is supported, and the
\* swapchain support has a surface format and a presentation mode.
C7_SuitableIff ==
    ret.fn = "isPhysicalDeviceSuitable"
        => (ret.value <=>
                /\ LET indices == findQueueFamilies(call.input)
                   IN indices.graphicsFamily # NoValue /\ indices.presentationFamily # NoValue
                /\ Range(deviceExtensions) \subseteq Range(call.input.extensions)
                /\ Len(call.input.surfaceFormats) >= 1
                /\ Len(call.input.presentationModes) >= 1)

C7_Witness ==
    /\ ret.fn = "isPhysicalDeviceSuitable"
    /\ ret.value
    /\ Len(call.input.queueFamilies) = 2
    /\ ~call.input.queueFamilies[1].present
    /\ Len(call.input.extensions) = 2

\* C8: pickVulkanPhysicalDevice raises the no-devices error exactly when the
\* platform enumerates no device and the no-suitable-device error exactly
\* when it enumerates devices none of which is suitable; in both cases run()
\* ends there and the physical device handle is still null.
C8_PickErrors ==
    Picked =>
        /\ (Len(physicalDevicesList) = 0) <=> (err = "no physical devices")
        /\ (Len(physicalDevicesList) > 0 /\ SuitableDevices = {})
               <=> (err = "no suitable physical device")
        /\ err \in {"no physical devices", "no suitable physical device"}
               => (pc = "failed" /\ app.vulkanPhysicalDevice = VK_NULL_HANDLE)

C8_Witness ==
    /\ Picked
    /\ err = "no suitable physical device"
    /\ Len(physicalDevicesList) = 2
    /\ app.vulkanPhysicalDevice = VK_NULL_HANDLE

InitChain ==
    <<"createVulkanInstance", "createVulkanSurface", "pickVulkanPhysicalDevice",
      "createLogicalDevice", "createSwapChain", "createSwapChainImageViews",
      "createRenderPass", "createGraphicsPipeline">>

\* what a step leaves behind when it succeeded
Succeeded(step) ==
    CASE step = "createVulkanInstance" -> H("instance", 1) \in Range(created)
      [] step = "createVulkanSurface" -> H("surface", 1) \in Range(created)
      [] step = "pickVulkanPhysicalDevice" -> app.vulkanPhysicalDevice # VK_NULL_HANDLE
      [] step = "createLogicalDevice" -> H("device", 1) \in Range(created)
      [] step = "createSwapChain" -> H("swapchain", 1) \in Range(created)
      [] step = "createSwapChainImageViews" ->
             \A k \in 1..Len(app.vulkanSwapChainImages) :
                 H("imageView", app.vulkanSwapChainImages[k]) \in Range(created)
      [] step = "createRenderPass" -> H("renderPass", 1) \in Range(created)
      [] step = "createGraphicsPipeline" -> H("pipeline", 1) \in Range(created)

\* the step of initVulkan that raises an error
RaisedBy(e) ==
    CASE e \in {"validation layers not available", "unsupported GLFW extensions",
                "failed to create instance"} -> "createVulkanInstance"
      [] e = "failed to create surface" -> "createVulkanSurface"
      [] e \in {"no physical devices", "no suitable physical device"}
             -> "pickVulkanPhysicalDevice"
      [] e \in {"physical device is NULL", "failed to create logical device"}
             -> "createLogicalDevice"
      [] e \in {"device is NULL", "out_of_range", "failed to create the swapchain"}
             -> "createSwapChain"
      [] e = "failed to create image-views" -> "createSwapChainImageViews"
      [] e = "failed to create render pass" -> "createRenderPass"
      [] e \in {"failed to open file", "failed to create shader module",
                "failed to create pipeline layout", "failed to create graphics pipeline"}
             -> "createGraphicsPipeline"
      [] OTHER -> "unknown"

\* C9: the steps of initVulkan are entered once each, in order; a step is
\* entered only if every step before it succeeded; and when a step raises an
\* error, run() ends with that error at that step: no later step is entered
\* and the failed step is not entered again.
C9_FailureStopsChain ==
    /\ Len(steps) <= Len(InitChain)
    /\ steps = SubSeq(InitChain, 1, Len(steps))
    /\ \A k \in 1..(Len(steps) - 1) : Succeeded(steps[k])
    /\ (err # "none") <=> (pc = "failed")
    /\ err # "none"
           => /\ steps # <<>>
              /\ RaisedBy(err) = steps[Len(steps)]
              /\ ~Succeeded(steps[Len(steps)])

C9_Witness ==
    /\ pc = "failed"
    /\ err = "failed to create the swapchain"
    /\ Len(steps) = 5

\* C10: on a non-empty list chooseSwapSurfaceFormat returns the first entry
\* equal to (B8G8R8A8_SRGB, SRGB_NONLINEAR), wherever it stands, and the
\* first entry of the list when no entry equals it.
C10_PreferredElseFirst ==
    (ret.fn = "chooseSwapSurfaceFormat" /\ call.input # <<>>)
        => LET preferred == {k \in 1..Len(call.input) :
                                call.input[k] = [format |-> "B8G8R8A8_SRGB",
                                                 colorSpace |-> "SRGB_NONLINEAR"]}
           IN /\ ret.value.error = "none"
              /\ ret.value.value = IF preferred # {}
                                   THEN call.input[Min(preferred)]
                                   ELSE call.input[1]

C10_Witness ==
    /\ ret.fn = "chooseSwapSurfaceFormat"
    /\ Len(call.input) = 3
    /\ call.input[1].format = "B8G8R8A8_SRGB"
    /\ call.input[1].colorSpace # "SRGB_NONLINEAR"
    /\ call.input[3] = PreferredSurfaceFormat
    /\ ret.value.value = PreferredSurfaceFormat

\* C11: chooseSwapSurfaceFormat returns a format and raises no error for
\* every list of supported formats, the empty list included.
C11_FormatChoiceNeverFails ==
    ret.fn = "chooseSwapSurfaceFormat" => ret.value.error = "none"

\* C12: chooseSwapPresentationMode returns MAILBOX when MAILBOX stands
\* anywhere in the list and FIFO otherwise, for every list (the empty list
\* and lists without FIFO included).
C12_MailboxElseFifo ==
    ret.fn = "chooseSwapPresentationMode"
        => ret.value = IF "MAILBOX" \in Range(call.input) THEN "MAILBOX" ELSE "FIFO"

C12_Witness ==
    /\ ret.fn = "chooseSwapPresentationMode"
    /\ call.input = <<"FIFO", "IMMEDIATE", "MAILBOX">>
    /\ ret.value = "MAILBOX"

\* C13: with the sentinel as current extent chooseSwapExtent returns the
\* framebuffer size with width and height each clamped to its own
\* [minImageExtent, maxImageExtent] range; with any other current extent it
\* returns the current extent unchanged.
C13_ExtentClampedPerAxis ==
    ret.fn = "chooseSwapExtent"
        => LET capabilities == call.input.capabilities
               framebuffer == call.input.framebuffer
               Within(v, lo, hi) == IF v < lo THEN lo ELSE IF v > hi THEN hi ELSE v
           IN IF capabilities.currentExtent = Extent(UINT32_MAX, UINT32_MAX)
              THEN /\ ret.value.width = Within(framebuffer.width,
                                               capabilities.minImageExtent.width,
                                               capabilities.maxImageExtent.width)
                   /\ ret.value.height = Within(framebuffer.height,
                                                capabilities.minImageExtent.height,
                                                capabilities.maxImageExtent.height)
              ELSE ret.value = capabilities.currentExtent

C13_Witness ==
    /\ ret.fn = "chooseSwapExtent"
    /\ call.input.capabilities.currentExtent = Extent(UINT32_MAX, UINT32_MAX)
    /\ call.input.capabilities.maxImageExtent = Extent(800, 600)
    /\ call.input.framebuffer = Extent(1024, 400)
    /\ ret.value = Extent(800, 400)

\* C14: for surface capabilities with 1 <= minImageCount <= maxImageCount the
\* image count in the request of createSwapChain is minImageCount + 1 when
\* that is at most maxImageCount, and maxImageCount otherwise.
C14_ImageCountClamped ==
    (/\ swapChainCreateInfo # NoRequest
     /\ 1 <= surfaceCapabilities.minImageCount
     /\ surfaceCapabilities.minImageCount <= surfaceCapabilities.maxImageCount)
        => swapChainCreateInfo.minImageCount =
               IF surfaceCapabilities.minImageCount + 1 <= surfaceCapabilities.maxImageCount
               THEN surfaceCapabilities.minImageCount + 1
               ELSE surfaceCapabilities.maxImageCount

C14_Witness ==
    /\ swapChainCreateInfo # NoRequest
    /\ surfaceCapabilities.minImageCount = 2
    /\ surfaceCapabilities.maxImageCount = 2
    /\ swapChainCreateInfo.minImageCount = 2
    /\ Alive("swapchain")

\* C15: the request of createSwapChain has exclusive sharing and no family
\* index exactly when the graphics and presentation families of the selected
\* device are the same family; otherwise it has concurrent sharing and
\* exactly the two indices graphics, presentation, which differ.
C15_SharingMode ==
    swapChainCreateInfo # NoRequest
        => LET indices == findQueueFamilies(physicalDevicesList[app.vulkanPhysicalDevice])
           IN /\ swapChainCreateInfo.sharingMode \in {"EXCLUSIVE", "CONCURRENT"}
              /\ (swapChainCreateInfo.sharingMode = "EXCLUSIVE")
                     <=> (indices.graphicsFamily = indices.presentationFamily)
              /\ swapChainCreateInfo.sharingMode = "EXCLUSIVE"
                     => swapChainCreateInfo.queueFamilyIndices = <<>>
              /\ swapChainCreateInfo.sharingMode = "CONCURRENT"
                     => /\ swapChainCreateInfo.queueFamilyIndices
                              = <<indices.graphicsFamily, indices.presentationFamily>>
                        /\ indices.graphicsFamily # indices.presentationFamily

C15_Witness ==
    /\ swapChainCreateInfo # NoRequest
    /\ swapChainCreateInfo.sharingMode = "CONCURRENT"
    /\ swapChainCreateInfo.queueFamilyIndices = <<0, 1>>
    /\ Alive("swapchain")

\* C16: for a device whose queue family 0 has the graphics flag and can
\* present to the surface, findQueueFamilies returns graphics = 0 and
\* presentation = 0, both set, and examines family 0 only.
C16_FamilyZeroStopsScan ==
    (/\ ret.fn = "findQueueFamilies"
     /\ call.input.queueFamilies # <<>>
     /\ call.input.queueFamilies[1].graphics
     /\ call.input.queueFamilies[1].present)
        => /\ ret.value.graphicsFamily = 0
           /\ ret.value.presentationFamily = 0
           /\ ret.value.graphicsFamily # NoValue /\ ret.value.presentationFamily # NoValue
           /\ ret.calls = <<0>>

C16_Witness ==
    /\ ret.fn = "findQueueFamilies"
    /\ Len(call.input.queueFamilies) = 3
    /\ \A k \in 1..3 : call.input.queueFamilies[k] = Family(TRUE, TRUE)
    /\ ret.value = [graphicsFamily |-> 0, presentationFamily |-> 0]
    /\ ret.calls = <<0>>

\* C17: findQueueFamilies returns without an error on every device, with
\* the graphics index unset exactly when no family has the graphics flag and
\* the presentation index unset exactly when no family can present (a device
\* without queue families included); isPhysicalDeviceSuitable returns FALSE,
\* without an error, for every device that lacks one of the two.
C17_MissingFamilyIsUnsuitable ==
    LET families == call.input.queueFamilies
        noGraphics == \A k \in 1..Len(families) : ~families[k].graphics
        noPresent == \A k \in 1..Len(families) : ~families[k].present
    IN /\ ret.fn = "findQueueFamilies"
              => /\ (ret.value.graphicsFamily = NoValue) <=> noGraphics
                 /\ (ret.value.presentationFamily = NoValue) <=> noPresent
                 /\ pc = "returned" /\ err = "none"
       /\ (ret.fn = "isPhysicalDeviceSuitable" /\ (noGraphics \/ noPresent))
              => /\ ret.value = FALSE
                 /\ pc = "returned" /\ err = "none"

C17_Witness ==
    /\ ret.fn = "isPhysicalDeviceSuitable"
    /\ call.input.queueFamilies = <<Family(TRUE, FALSE), Family(TRUE, FALSE)>>
    /\ call.input.extensions = deviceExtensions
    /\ call.input.surfaceFormats # <<>>
    /\ call.input.presentationModes # <<>>
    /\ ret.value = FALSE

\* C18: no shader module is alive outside createGraphicsPipeline: the modules
\* it creates are destroyed before it ends, on the path where the pipeline
\* is built and on the paths where the creation of the second module, of the
\* pipeline layout or of the pipeline fails.
C18_ShaderModulesDoNotOutliveCall ==
    pc \notin {"createFragShaderModule", "vkCreatePipelineLayout",
               "vkCreateGraphicsPipelines", "destroyVertShaderModule",
               "destroyFragShaderModule"}
        => ~Alive("shaderModule")

\* C19: after createSwapChainImageViews has raised its error the stored
\* sequence of image views holds a view for every swapchain image or for
\* none, never for some of the images only.
C19_NoPartialImageViews ==
    err = "failed to create image-views"
        => \/ \A k \in 1..Len(app.vulkanSwapChainImageViews) :
                  app.vulkanSwapChainImageViews[k] # VK_NULL_HANDLE
           \/ \A k \in 1..Len(app.vulkanSwapChainImageViews) :
                  app.vulkanSwapChainImageViews[k] = VK_NULL_HANDLE

\* C20: isPhysicalDeviceSuitable calls querySwapChainSupport only after
\* checkPhysicalDeviceExtensionsSupport, and only when that check found every
\* required extension: for a device lacking one it is not called.
C20_QueryOnlyAfterExtensions ==
    ret.fn = "isPhysicalDeviceSuitable"
        => LET queried == {k \in 1..Len(ret.calls) : ret.calls[k] = "querySwapChainSupport"}
           IN /\ \A k \in queried :
                    \E j \in 1..(k - 1) :
                        ret.calls[j] = "checkPhysicalDeviceExtensionsSupport"
              /\ queried # {}
                    => Range(deviceExtensions) \subseteq Range(call.input.extensions)

C20_Witness ==
    /\ ret.fn = "isPhysicalDeviceSuitable"
    /\ call.input.extensions = <<"VK_KHR_maintenance1">>
    /\ call.input.queueFamilies = <<Family(TRUE, TRUE)>>
    /\ call.input.surfaceFormats # <<>>
    /\ call.input.presentationModes # <<>>
    /\ "querySwapChainSupport" \notin Range(ret.calls)
    /\ ret.value = FALSE

\* C21: the queue-creation requests of createLogicalDevice are one per
\* distinct family among the graphics and the presentation family of the
\* selected device (one when they are the same family, two when they
\* differ, no family twice), each for exactly one queue.
C21_OneRequestPerDistinctFamily ==
    queueCreateInfos # <<>>
        => LET indices == findQueueFamilies(physicalDevicesList[app.vulkanPhysicalDevice])
               families == {indices.graphicsFamily, indices.presentationFamily}
           IN /\ {queueCreateInfos[k].queueFamilyIndex : k \in 1..Len(queueCreateInfos)}
                     = families
              /\ Len(queueCreateInfos) = Cardinality(families)
              /\ \A j, k \in 1..Len(queueCreateInfos) :
                     j # k => queueCreateInfos[j].queueFamilyIndex
                                  # queueCreateInfos[k].queueFamilyIndex
              /\ \A k \in 1..Len(queueCreateInfos) : queueCreateInfos[k].queueCount = 1

C21_Witness ==
    /\ Len(queueCreateInfos) = 1
    /\ queueCreateInfos[1] = [queueFamilyIndex |-> 0, queueCount |-> 1]
    /\ Alive("device")
    /\ app.deviceGraphicsQueue = app.devicePresentationQueue

\* C22: once createSwapChainImageViews has succeeded there are as many image
\* views as swapchain images, and the view at each position is the one
\* created for the image at that position.
C22_ViewPerImage ==
    "createRenderPass" \in Range(steps)
        => /\ Len(app.vulkanSwapChainImageViews) = Len(app.vulkanSwapChainImages)
           /\ \A k \in 1..Len(app.vulkanSwapChainImages) :
                  /\ app.vulkanSwapChainImageViews[k] = app.vulkanSwapChainImages[k]
                  /\ H("imageView", app.vulkanSwapChainImages[k]) \in Range(created)

C22_Witness ==
    /\ pc = "createGraphicsPipeline"
    /\ Len(app.vulkanSwapChainImages) = 3
    /\ app.vulkanSwapChainImageViews = <<1, 2, 3>>

\* C24: when pickVulkanPhysicalDevice returns without an error the stored
\* device is one isPhysicalDeviceSuitable accepts, and createLogicalDevice
\* and createSwapChain, probing the same device again, find both family
\* indices set: no unset index is ever read.
C24_PickedDeviceHasBothFamilies ==
    /\ (Picked /\ err \notin {"no physical devices", "no suitable physical device"})
           => /\ app.vulkanPhysicalDevice \in SuitableDevices
              /\ LET indices ==
                         findQueueFamilies(physicalDevicesList[app.vulkanPhysicalDevice])
                 IN indices.graphicsFamily # NoValue /\ indices.presentationFamily # NoValue
    /\ err \notin {"bad_optional_access", "physical device is NULL", "device is NULL"}

C24_Witness ==
    /\ Alive("swapchain")
    /\ Len(physicalDevicesList) = 2
    /\ 1 \notin SuitableDevices
    /\ physicalDevicesList[1].extensions = deviceExtensions
    /\ app.vulkanPhysicalDevice = 2
    /\ swapChainCreateInfo.sharingMode = "CONCURRENT"

\* C25: when a step of initVulkan has raised an error, run() is over: the
\* main loop is not run, cleanup is not run, and nothing that was created
\* before the failing step has been destroyed.
C25_FailureReleasesNothing ==
    err # "none"
        => /\ pc = "failed"
           /\ destroyed = <<>>
           /\ ~windowShouldClose
           /\ created # <<>> => Alive(created[Len(created)].kind)

C25_Witness ==
    /\ pc = "failed"
    /\ err = "failed to create graphics pipeline"
    /\ Len(created) >= 8
    /\ destroyed = <<>>

C27_MissingExtensionRaises ==
    (/\ ret.fn = "createVulkanInstance"
     /\ app.enableVulkanValidationLayers
     /\ Range(vulkanValidationLayers) \subseteq Range(call.input.availableInstanceLayers)
     /\ \E k \in 1..Len(call.input.glfwExtensionNames) :
            call.input.glfwExtensionNames[k] \notin Range(call.input.vulkanExtensions))
        => /\ ret.value = "unsupported GLFW extensions"
           /\ app.vulkanInstance = VK_NULL_HANDLE
           /\ created = <<>>

\* C26: once the window has requested close, run() terminates; cleanup runs
\* only after the close request; and when run() has terminated every handle
\* that was created has been destroyed exactly once, and nothing else was.
C26_CloseLeadsToCleanTermination ==
    /\ windowShouldClose ~> (pc = "done")
    /\ [](pc \in {"vkDestroyPipeline", "vkDestroyPipelineLayout", "vkDestroyRenderPass",
                  "vkDestroyImageView", "vkDestroySwapchainKHR", "vkDestroyDevice",
                  "vkDestroySurfaceKHR", "vkDestroyInstance", "glfwDestroyWindow", "done"}
             => windowShouldClose)
    /\ [](pc = "done"
             => /\ Range(destroyed) = Range(created)
                /\ Len(destroyed) = Len(created)
                /\ \A j, k \in 1..Len(destroyed) : j # k => destroyed[j] # destroyed[k])

C26_Witness ==
    /\ pc = "done"
    /\ windowShouldClose
    /\ Len(created) >= 10
    /\ Len(destroyed) = Len(created)

====
